---------------------------- MODULE Spec2Model ----------------------------
(***************************************************************************)
(* Model of the knowledge-graph priority reasoner (knowledge_graph.py,     *)
(* reckless_drive.py), the lane-change controller (custom_controller.py)   *)
(* and the scenario runner (reckless_drive.py, obstacles.py).              *)
(*                                                                         *)
(* Units: lengths are in tenths of a metre, angles in whole degrees,       *)
(* speeds in whole km/h, actuation values (throttle, steer, brake) in      *)
(* sixtieths, so that 1.0 is the number One = 60.                          *)
(***************************************************************************)
EXTENDS Integers, Sequences, FiniteSets, TLC

VARIABLES
    obstacles,      \* argument of get_decision / _run_scenario: names of the 3 lanes
    decision,       \* what the last get_decision call did
    instances,      \* argument of sort_instances_by_importance
    ranking,        \* what the last sort_instances_by_importance call returned
    target_offset,  \* LaneChangeController.target_offset
    mode,           \* LaneChangeController.mode
    world,          \* what the simulator holds: the vehicle's speed and yaw, the lane's direction
    last,           \* the last controller call: its name, argument and outcome
    pc,             \* where the caller is: in _run_scenario, or which function it exercises
    ticks,          \* iterations of _run_scenario's loop so far
    stats,          \* RunStats of the scenario, and how often it was saved
    actors,         \* the simulator's actors of the scenario
    applied         \* the control last given to vehicle.apply_control

vars == <<obstacles, decision, instances, ranking, target_offset, mode, world, last,
          pc, ticks, stats, actors, applied>>

kgVars == <<obstacles, decision, instances, ranking>>
ctrlVars == <<target_offset, mode, world, last>>
runVars == <<pc, ticks, stats, actors, applied>>

----------------------------------------------------------------------------
(* Bounds of the model *)

\* longest list handed to sort_instances_by_importance
MaxLen == 3

\* most iterations of the scenario loop before the scenario timeout
MaxTicks == 2

\* the vehicle's yaw runs over the multiples of 30 degrees up to 30 * MaxYawSteps
MaxYawSteps == 6

\* the vehicle's speed runs over the multiples of 20 km/h up to 20 * MaxSpeedSteps
MaxSpeedSteps == 6

----------------------------------------------------------------------------
(* custom_controller.py: symbolic modes *)

MODE_LEFT == "left"
MODE_STRAIGHT == "straight"
MODE_RIGHT == "right"

----------------------------------------------------------------------------
(* obstacles.py: names and the name -> instance map *)

OBSTACLE_NAMES == <<"car", "bottle", "person", "box", "cat", "dog", "bird", "bag">>

KG_INSTANCE_MAP ==
    [n \in {"person", "car", "box", "cat", "dog", "bird", "bottle", "bag"} |->
        CASE n = "person" -> "DetectedPerson"
          [] n = "car"    -> "DetectedCar"
          [] n = "box"    -> "DetectedBox"
          [] n = "cat"    -> "DetectedCat"
          [] n = "dog"    -> "DetectedDog"
          [] n = "bird"   -> "DetectedBird"
          [] n = "bottle" -> "DetectedBottle"
          [] n = "bag"    -> "DetectedBag"]

\* KG_INSTANCE_MAP.get(name, name)
MapName(name) ==
    IF name \in DOMAIN KG_INSTANCE_MAP THEN KG_INSTANCE_MAP[name] ELSE name

----------------------------------------------------------------------------
(* prepare_base_kg.py: the triples of base_kg.ttl *)

\* rdfs:subClassOf
subClassOf ==
    { <<"Person", "LivingBeing">>, <<"Animal", "LivingBeing">>,
      <<"Bird", "Animal">>, <<"Dog", "Animal">>, <<"Cat", "Animal">>,
      <<"CardboardBox", "HeavyObstacle">>, <<"Car", "HeavyObstacle">>,
      <<"Bottle", "LightObstacle">>, <<"PlasticBag", "LightObstacle">> }

\* ex:requiresAction
requiresAction ==
    { <<"LivingBeing", "BehaviorAvoid">>,
      <<"LightObstacle", "BehaviorProceed">>,
      <<"HeavyObstacle", "BehaviorAvoid">> }

\* ex:moreImportantThan
moreImportantThan ==
    { <<"LivingBeing", "HeavyObstacle">>,
      <<"HeavyObstacle", "LightObstacle">>,
      <<"Person", "Animal">> }

\* rdf:type of the detected instances
rdfType ==
    { <<"DetectedPerson", "Person">>, <<"DetectedBag", "PlasticBag">>,
      <<"DetectedCar", "Car">>, <<"DetectedBox", "CardboardBox">> }

Classes ==
    {e[1] : e \in subClassOf} \cup {e[2] : e \in subClassOf}
        \cup {e[1] : e \in moreImportantThan} \cup {e[2] : e \in moreImportantThan}

----------------------------------------------------------------------------
(* knowledge_graph.py: the SPARQL queries *)

\* ex:<instance> a ?type
TypesOf(instance) == {e[2] : e \in {t \in rdfType : t[1] = instance}}

RECURSIVE Closure(_, _)
Closure(S, n) ==
    IF n = 0 THEN S
    ELSE LET T == S \cup {e[2] : e \in {x \in subClassOf : x[1] \in S}}
         IN  IF T = S THEN S ELSE Closure(T, n - 1)

\* ?type rdfs:subClassOf* ?parentClass  (zero or more steps: ?type itself included)
Ancestors(type) == Closure({type}, Cardinality(subClassOf))

\* the ?parentClass bindings of the instance
ParentClasses(instance) == UNION {Ancestors(t) : t \in TypesOf(instance)}

\* the ?behavior bindings of the instance, already cut to the last path segment
BehaviorRows(instance) ==
    {e[2] : e \in {r \in requiresAction : r[1] \in ParentClasses(instance)}}

None == "None"

\* KG.get_behavior_for_instance: the first row, or None when there is no row.
\* In base_kg.ttl no instance has two rows (RowsUnique below), so the first row
\* is the only one.
get_behavior_for_instance(instance) ==
    IF BehaviorRows(instance) = {} THEN None
    ELSE CHOOSE b \in BehaviorRows(instance) : TRUE

\* behavior_importance.get(behavior_name, 0); no row leaves behavior_priority 0
behavior_importance(behavior) ==
    CASE behavior = "BehaviorProceed"     -> 1
      [] behavior = "BehaviorAvoid"       -> 2
      [] behavior = "BehaviorHonkAndWait" -> 3
      [] behavior = "BehaviorStop"        -> 4
      [] OTHER                            -> 0

\* get_importance_score: (behavior_priority, COUNT(DISTINCT ?parentClass))
get_importance_score(instance) ==
    << behavior_importance(get_behavior_for_instance(instance)),
       Cardinality(ParentClasses(instance)) >>

\* Python's tuple comparison a < b
TupleLess(a, b) == a[1] < b[1] \/ (a[1] = b[1] /\ a[2] < b[2])

\* a bug sorted() does not have: an element is put before its equals
InsertBeforeEquals(x, s) ==
    LET after == {i \in 1..Len(s) :
                    ~ TupleLess(get_importance_score(s[i]), get_importance_score(x))}
        pos == IF after = {} THEN Len(s) + 1
               ELSE CHOOSE i \in after : \A j \in after : i <= j
    IN  SubSeq(s, 1, pos - 1) \o <<x>> \o SubSeq(s, pos, Len(s))

\* one step of sorted(): x goes behind every element whose key is not greater
Insert(x, s) ==
    LET after == {i \in 1..Len(s) :
                    TupleLess(get_importance_score(x), get_importance_score(s[i]))}
        pos == IF after = {} THEN Len(s) + 1
               ELSE CHOOSE i \in after : \A j \in after : i <= j
    IN  SubSeq(s, 1, pos - 1) \o <<x>> \o SubSeq(s, pos, Len(s))

RECURSIVE SortedPrefix(_, _)
\* sorted(instances[:n], key=get_importance_score): ascending, stable
SortedPrefix(s, n) ==
    IF n = 0 THEN <<>> ELSE Insert(s[n], SortedPrefix(s, n - 1))

\* KG.sort_instances_by_importance
sort_instances_by_importance(insts) == SortedPrefix(insts, Len(insts))

\* the methods class KG defines
KGMethods ==
    {"__init__", "save", "get_behavior_for_instance",
     "sort_instances_by_importance", "visualize"}

----------------------------------------------------------------------------
(* reckless_drive.py: KgReasoning.get_decision *)

Returned(m, b, consulted) ==
    [outcome |-> "returned", mode |-> m, brake |-> b, error |-> None,
     ranked |-> consulted]

Raised(e, consulted) ==
    [outcome |-> "raised", mode |-> None, brake |-> FALSE, error |-> e,
     ranked |-> consulted]

NotRanked == [called |-> FALSE, result |-> <<>>]

NoDecision ==
    [outcome |-> "none", mode |-> None, brake |-> FALSE, error |-> None,
     ranked |-> FALSE]

kg_instances_of(obs) == [i \in 1..Len(obs) |-> MapName(obs[i])]

behaviors_of(obs) ==
    [i \in 1..Len(obs) |-> get_behavior_for_instance(kg_instances_of(obs)[i])]

\* lines 48-61: the ranking branch
RankingBranch(kg_instances) ==
    IF "get_instances_sorted_by_importance" \notin KGMethods
    THEN Raised("AttributeError", TRUE)
    ELSE LET hierarchy == sort_instances_by_importance(kg_instances)
         IN  IF hierarchy = <<>> THEN Returned(MODE_STRAIGHT, TRUE, TRUE)
             ELSE IF Len(kg_instances) >= 3 /\ kg_instances[2] = hierarchy[1]
                  THEN Returned(MODE_STRAIGHT, TRUE, TRUE)
             ELSE IF Len(kg_instances) >= 3 /\ kg_instances[1] = hierarchy[1]
                  THEN Returned(MODE_LEFT, TRUE, TRUE)
             ELSE IF Len(kg_instances) >= 3 /\ kg_instances[3] = hierarchy[1]
                  THEN Returned(MODE_RIGHT, TRUE, TRUE)
             ELSE Returned(MODE_STRAIGHT, TRUE, TRUE)

\* a bug: the left lane is tested before the center lane
get_decision_left_first(obs) ==
    LET kg_instances == kg_instances_of(obs)
        behaviors == behaviors_of(obs)
    IN  IF Len(behaviors) >= 3 /\ behaviors[1] = "BehaviorProceed"
        THEN Returned(MODE_LEFT, FALSE, FALSE)
        ELSE IF Len(behaviors) >= 3 /\ behaviors[2] = "BehaviorProceed"
        THEN Returned(MODE_STRAIGHT, FALSE, FALSE)
        ELSE IF Len(behaviors) >= 3 /\ behaviors[3] = "BehaviorProceed"
        THEN Returned(MODE_RIGHT, FALSE, FALSE)
        ELSE IF Cardinality({kg_instances[i] : i \in 1..Len(kg_instances)}) = 1
        THEN Returned(MODE_STRAIGHT, TRUE, FALSE)
        ELSE RankingBranch(kg_instances)

\* a bug: the same-obstacle test is left out
get_decision_no_same_test(obs) ==
    LET kg_instances == kg_instances_of(obs)
        behaviors == behaviors_of(obs)
    IN  IF Len(behaviors) >= 3 /\ behaviors[2] = "BehaviorProceed"
        THEN Returned(MODE_STRAIGHT, FALSE, FALSE)
        ELSE IF Len(behaviors) >= 3 /\ behaviors[1] = "BehaviorProceed"
        THEN Returned(MODE_LEFT, FALSE, FALSE)
        ELSE IF Len(behaviors) >= 3 /\ behaviors[3] = "BehaviorProceed"
        THEN Returned(MODE_RIGHT, FALSE, FALSE)
        ELSE RankingBranch(kg_instances)

\* KgReasoning.get_decision; Python list index 0, 1, 2 is 1, 2, 3 here
get_decision(obs) ==
    LET kg_instances == kg_instances_of(obs)
        behaviors == behaviors_of(obs)
    IN  IF Len(behaviors) >= 3 /\ behaviors[2] = "BehaviorProceed"
        THEN Returned(MODE_STRAIGHT, FALSE, FALSE)
        ELSE IF Len(behaviors) >= 3 /\ behaviors[1] = "BehaviorProceed"
        THEN Returned(MODE_LEFT, FALSE, FALSE)
        ELSE IF Len(behaviors) >= 3 /\ behaviors[3] = "BehaviorProceed"
        THEN Returned(MODE_RIGHT, FALSE, FALSE)
        ELSE IF Cardinality({kg_instances[i] : i \in 1..Len(kg_instances)}) = 1
        THEN Returned(MODE_STRAIGHT, TRUE, FALSE)
        ELSE RankingBranch(kg_instances)

----------------------------------------------------------------------------
(* custom_controller.py: LaneChangeController *)

\* self.lane_width = 3.5, in tenths of a metre
lane_width == 35

\* error / 60.0
SteerGain == 60

\* speed_error / 30.0
SpeedGain == 30

\* the value 1.0 of a throttle, steer or brake, which are kept in sixtieths
One == SteerGain

Min2(a, b) == IF a < b THEN a ELSE b
Max2(a, b) == IF a > b THEN a ELSE b

\* arguments of set_lane_offset and set_mode: a number or a string
IntArg(n) == [kind |-> "int", int |-> n, str |-> ""]
StrArg(t) == [kind |-> "str", int |-> 0, str |-> t]

Modes == {MODE_LEFT, MODE_STRAIGHT, MODE_RIGHT}

\* carla.VehicleControl(throttle, steer, brake)
VehicleControl(t, st, b) == [throttle |-> t, steer |-> st, brake |-> b]

NoControl == VehicleControl(0, 0, 0)

\* the record of a controller call
Call(name, arg, exc, control, rawError, headingError) ==
    [op |-> name, arg |-> arg, raised |-> exc, control |-> control,
     raw |-> rawError, error |-> headingError]

\* run_step's emergency_brake as the recorded argument
BoolArg(b) == [kind |-> "bool", int |-> IF b THEN 1 ELSE 0, str |-> ""]

NoCall == Call("none", IntArg(0), None, NoControl, 0, 0)

\* set_lane_offset, lines 26-34: the number a string stands for
OffsetNumber(offset) ==
    IF offset.kind = "str"
    THEN CASE offset.str = MODE_LEFT     -> -1
           [] offset.str = MODE_RIGHT    -> 1
           [] offset.str = MODE_STRAIGHT -> 0
    ELSE offset.int

\* set_lane_offset raises ValueError for a string that is no mode
OffsetRaises(offset) == offset.kind = "str" /\ offset.str \notin Modes

\* a bug: the offset is stored without the lane width
set_lane_offset_unscaled(offset) ==
    IF OffsetRaises(offset)
    THEN /\ last' = Call("set_lane_offset", offset, "ValueError", NoControl, 0, 0)
         /\ UNCHANGED <<target_offset, mode, world>>
    ELSE /\ target_offset' = OffsetNumber(offset)
         /\ last' = Call("set_lane_offset", offset, None, NoControl, 0, 0)
         /\ UNCHANGED <<mode, world>>

\* a bug: a string that is no mode is taken for straight
set_lane_offset_lenient(offset) ==
    /\ target_offset' = (IF OffsetRaises(offset) THEN 0 ELSE OffsetNumber(offset)) * lane_width
    /\ last' = Call("set_lane_offset", offset, None, NoControl, 0, 0)
    /\ UNCHANGED <<mode, world>>

\* LaneChangeController.set_lane_offset
set_lane_offset(offset) ==
    IF OffsetRaises(offset)
    THEN /\ last' = Call("set_lane_offset", offset, "ValueError", NoControl, 0, 0)
         /\ UNCHANGED <<target_offset, mode, world>>
    ELSE /\ target_offset' = OffsetNumber(offset) * lane_width
         /\ last' = Call("set_lane_offset", offset, None, NoControl, 0, 0)
         /\ UNCHANGED <<mode, world>>

\* LaneChangeController.set_mode, with its call of set_lane_offset
set_mode(m) ==
    IF m.kind # "str" \/ m.str \notin Modes
    THEN /\ last' = Call("set_mode", m, "ValueError", NoControl, 0, 0)
         /\ UNCHANGED <<target_offset, mode, world>>
    ELSE /\ mode' = m.str
         /\ target_offset' =
               (IF m.str = MODE_LEFT THEN -1
                ELSE IF m.str = MODE_RIGHT THEN 1 ELSE 0) * lane_width
         /\ last' = Call("set_mode", m, None, NoControl, 0, 0)
         /\ UNCHANGED world

\* lookahead = max(8.0, speed / 3.6), in tenths of a metre (rounded down)
Lookahead(speed) == Max2(80, (speed * 100) \div 36)

\* the lane's direction at the waypoint is one of the four axis directions:
\* its forward vector, and its right vector (CARLA: x forward, y right)
Forward(h) == CASE h = 0 -> <<1, 0>> [] h = 1 -> <<0, 1>>
                [] h = 2 -> <<-1, 0>> [] h = 3 -> <<0, -1>>
RightVector(h) == CASE h = 0 -> <<0, 1>> [] h = 1 -> <<-1, 0>>
                    [] h = 2 -> <<0, -1>> [] h = 3 -> <<1, 0>>

\* lines 57-67: target_loc - vehicle_tf.location for a vehicle on the lane's
\* centerline: the waypoint lies `lookahead` ahead, the target target_offset to
\* its right
TargetDelta(offset, w) ==
    LET f == Forward(w.heading)
        r == RightVector(w.heading)
    IN  << Lookahead(w.speed) * f[1] + (IF offset # 0 THEN r[1] * offset ELSE 0),
           Lookahead(w.speed) * f[2] + (IF offset # 0 THEN r[2] * offset ELSE 0) >>

Abs(x) == IF x < 0 THEN -x ELSE x

OnGrid(a) == a % 10 = 0

\* the angle of (ax, ay), both >= 0, against the x axis: exact on the axes and
\* the diagonal, otherwise any grid angle inside the octant
BaseAngles(ax, ay) ==
    IF ay = 0 THEN {0}
    ELSE IF ax = 0 THEN {90}
    ELSE IF ay = ax THEN {45}
    ELSE IF ay < ax THEN {a \in 1..44 : OnGrid(a)}
    ELSE {a \in 46..89 : OnGrid(a)}

\* math.degrees(math.atan2(dy, dx)): the values the arctangent can have
Atan2Degrees(dy, dx) ==
    {IF dx >= 0 /\ dy >= 0 THEN b
     ELSE IF dx < 0 /\ dy >= 0 THEN 180 - b
     ELSE IF dx < 0 THEN b - 180
     ELSE 0 - b : b \in BaseAngles(Abs(dx), Abs(dy))}

TargetAngles(offset, w) ==
    Atan2Degrees(TargetDelta(offset, w)[2], TargetDelta(offset, w)[1])

RECURSIVE WhileAbove(_)
\* while error > 180: error -= 360
WhileAbove(error) == IF error > 180 THEN WhileAbove(error - 360) ELSE error

RECURSIVE WhileBelow(_)
\* while error < -180: error += 360
WhileBelow(error) == IF error < -180 THEN WhileBelow(error + 360) ELSE error

\* a bug: the second loop is left out
NormalizeAboveOnly(error) == WhileAbove(error)

\* lines 75-77: the two loops
Normalize(error) == WhileBelow(WhileAbove(error))

\* a bug: the steering is not clamped
steer_unclamped(error) == (error * One) \div SteerGain

\* steer = max(-1.0, min(1.0, error / 60.0))
Steer(error) == Max2(-One, Min2(One, (error * One) \div SteerGain))

\* lines 82-88: throttle and brake from the speed error
Throttle(speed_error) ==
    IF speed_error > 0 THEN Min2(One, (speed_error * One) \div SpeedGain) ELSE 0
Brake(speed_error) ==
    IF speed_error > 0 THEN 0 ELSE Min2(One, ((0 - speed_error) * One) \div SpeedGain)

\* a bug: the emergency brake keeps steering towards the target
run_step_brake_steers(offset, w, target_speed, emergency_brake, target_angle) ==
    LET raw == target_angle - w.yaw
        error == Normalize(raw)
        speed_error == target_speed - w.speed
    IN  IF emergency_brake
        THEN Call("run_step", BoolArg(TRUE), None,
                  VehicleControl(0, Steer(error), One), 0, 0)
        ELSE Call("run_step", BoolArg(FALSE), None,
                  VehicleControl(Throttle(speed_error), Steer(error),
                                 Brake(speed_error)),
                  raw, error)

\* LaneChangeController.run_step: what it returns. target_angle is the value of
\* math.degrees(math.atan2(dy, dx)) for the target it computed.
run_step(offset, w, target_speed, emergency_brake, target_angle) ==
    IF emergency_brake
    THEN Call("run_step", BoolArg(TRUE), None, VehicleControl(0, 0, One), 0, 0)
    ELSE LET raw == target_angle - w.yaw
             error == Normalize(raw)
             speed_error == target_speed - w.speed
         IN  Call("run_step", BoolArg(FALSE), None,
                  VehicleControl(Throttle(speed_error), Steer(error),
                                 Brake(speed_error)),
                  raw, error)

\* a bug: the emergency brake drops the lane target
RunStepDropsTarget(target_speed, emergency_brake) ==
    \E a \in TargetAngles(target_offset, world) :
        /\ last' = run_step(target_offset, world, target_speed, emergency_brake, a)
        /\ target_offset' = IF emergency_brake THEN 0 ELSE target_offset
        /\ UNCHANGED <<mode, world>>

\* a call of run_step: the controller's fields are only read
RunStep(target_speed, emergency_brake) ==
    \E a \in TargetAngles(target_offset, world) :
        /\ last' = run_step(target_offset, world, target_speed, emergency_brake, a)
        /\ UNCHANGED <<target_offset, mode, world>>

----------------------------------------------------------------------------
(* reckless_drive.py, obstacles.py: the state of a scenario run *)

\* config["target_speed"]
ConfigTargetSpeed == 80

\* RunStats() as constructed, never saved
NewStats ==
    [behavior |-> "", brake_applied |-> FALSE, collided_with |-> None, saved |-> 0]

\* no vehicle, no collision sensor, nothing in spawner.spawned
NoActors ==
    [vehicle |-> "none", sensor |-> "none", spawned |-> <<>>, destroyed |-> 0]

NoScenario ==
    /\ ticks = 0
    /\ stats = NewStats
    /\ actors = NoActors
    /\ applied = NoControl

----------------------------------------------------------------------------
(* Specification of the controller: any calls in any order, the simulator *)
(* moving the vehicle in between                                           *)

Yaws == {30 * k : k \in (0 - MaxYawSteps)..MaxYawSteps}
Speeds == {20 * k : k \in 0..MaxSpeedSteps}
Headings == 0..3

\* run_step's target_speed: its default and config["target_speed"] are 80
TargetSpeeds == {30, 80}

\* arguments tried on set_lane_offset and set_mode
Args ==
    {IntArg(n) : n \in {-1, 0, 1}}
        \cup {StrArg(t) : t \in Modes \cup {"center"}}

InitCtrl ==
    /\ target_offset = 0
    /\ mode = MODE_STRAIGHT
    /\ world \in [speed : Speeds, heading : Headings, yaw : Yaws]
    /\ last = NoCall
    /\ obstacles = <<>>
    /\ decision = NoDecision
    /\ instances = <<>>
    /\ ranking = NotRanked
    /\ pc = "controller"
    /\ NoScenario

SetLaneOffset ==
    /\ pc = "controller"
    /\ \E a \in Args : set_lane_offset(a)
    /\ UNCHANGED <<kgVars, runVars>>

SetMode ==
    /\ pc = "controller"
    /\ \E a \in Args : set_mode(a)
    /\ UNCHANGED <<kgVars, runVars>>

Step ==
    /\ pc = "controller"
    /\ \E ts \in TargetSpeeds, eb \in BOOLEAN : RunStep(ts, eb)
    /\ UNCHANGED <<kgVars, runVars>>

\* the simulation moves on: the vehicle's speed, its yaw or the lane's direction
\* takes another value, and the last call's record is dropped
WorldMoves ==
    /\ pc = "controller"
    /\ \E w \in  {[world EXCEPT !.speed = v] : v \in Speeds}
               \cup {[world EXCEPT !.yaw = y] : y \in Yaws}
               \cup {[world EXCEPT !.heading = h] : h \in Headings} :
          world' = w /\ w # world
    /\ last' = NoCall
    /\ UNCHANGED <<target_offset, mode>>
    /\ UNCHANGED <<kgVars, runVars>>

NextCtrl == SetLaneOffset \/ SetMode \/ Step \/ WorldMoves

SpecCtrl == InitCtrl /\ [][NextCtrl]_vars

----------------------------------------------------------------------------
(* Specification of get_decision as a function of its argument *)

\* names a caller can pass: the supported ones, an instance identifier given
\* directly and a name that is in no map
DecideNames ==
    {OBSTACLE_NAMES[i] : i \in 1..Len(OBSTACLE_NAMES)} \cup {"DetectedPerson", "DetectedBag", "truck"}

SeqsUpTo(S, n) == UNION {[1..k -> S] : k \in 0..n}

InitDecide ==
    /\ obstacles \in SeqsUpTo(DecideNames, 3)
    /\ decision = NoDecision
    /\ instances = <<>>
    /\ ranking = NotRanked
    /\ target_offset = 0
    /\ mode = MODE_STRAIGHT
    /\ world = [speed |-> 0, heading |-> 0, yaw |-> 0]
    /\ last = NoCall
    /\ pc = "get_decision"
    /\ NoScenario

Decide ==
    /\ pc = "get_decision"
    /\ decision.outcome = "none"
    /\ decision' = get_decision(obstacles)
    /\ UNCHANGED <<obstacles, instances, ranking>>
    /\ UNCHANGED <<ctrlVars, runVars>>

NextDecide == Decide

SpecDecide == InitDecide /\ [][NextDecide]_vars

----------------------------------------------------------------------------
(* Specification of sort_instances_by_importance as a function of its argument *)

\* instance identifiers: those of KG_INSTANCE_MAP and one that is in no map
RankNames == {KG_INSTANCE_MAP[n] : n \in DOMAIN KG_INSTANCE_MAP} \cup {"truck"}

InitRank ==
    /\ instances \in SeqsUpTo(RankNames, MaxLen)
    /\ ranking = NotRanked
    /\ obstacles = <<>>
    /\ decision = NoDecision
    /\ target_offset = 0
    /\ mode = MODE_STRAIGHT
    /\ world = [speed |-> 0, heading |-> 0, yaw |-> 0]
    /\ last = NoCall
    /\ pc = "sort"
    /\ NoScenario

Sort ==
    /\ pc = "sort"
    /\ ~ ranking.called
    /\ ranking' = [called |-> TRUE, result |-> sort_instances_by_importance(instances)]
    /\ UNCHANGED <<obstacles, decision, instances>>
    /\ UNCHANGED <<ctrlVars, runVars>>

NextRank == Sort

SpecRank == InitRank /\ [][NextRank]_vars

----------------------------------------------------------------------------
(* Specification of _run_scenario: one scenario from its first line to its end *)

\* the sub-sequences of a 3-tuple: spawner.spawn appends only the obstacles
\* world.try_spawn_actor could place
Spawnable(combo) ==
    {<<>>, <<combo[1]>>, <<combo[2]>>, <<combo[3]>>,
     <<combo[1], combo[2]>>, <<combo[1], combo[3]>>, <<combo[2], combo[3]>>,
     combo}

Combos == [1..3 -> {OBSTACLE_NAMES[i] : i \in 1..Len(OBSTACLE_NAMES)}]

\* where the simulator puts the vehicle during a scenario
ScenarioWorlds == [speed : {0, 40}, heading : {0}, yaw : {0, 30, 0 - 90}]

InitScenario ==
    /\ pc = "start"
    /\ NoScenario
    /\ obstacles = <<>>
    /\ decision = NoDecision
    /\ instances = <<>>
    /\ ranking = NotRanked
    /\ target_offset = 0
    /\ mode = MODE_STRAIGHT
    /\ world = [speed |-> 0, heading |-> 0, yaw |-> 0]
    /\ last = NoCall

\* lines 104-118: world.try_spawn_actor gives the vehicle, or None and the
\* scenario is skipped
SpawnVehicle ==
    /\ pc = "start"
    /\ \/ /\ pc' = "skipped"
          /\ UNCHANGED actors
       \/ /\ pc' = "setup"
          /\ actors' = [actors EXCEPT !.vehicle = "alive"]
    /\ UNCHANGED <<kgVars, ctrlVars, ticks, stats, applied>>

\* lines 128-137: the obstacles, the collision sensor, the controller and the
\* launch of the vehicle
Setup ==
    /\ pc = "setup"
    /\ \E combo \in Combos : \E names \in Spawnable(combo) :
          /\ obstacles' = names
          /\ actors' = [actors EXCEPT !.spawned = names, !.sensor = "alive"]
    /\ target_offset' = 0
    /\ mode' = MODE_STRAIGHT
    /\ last' = NoCall
    /\ \E w \in ScenarioWorlds : world' = w
    /\ applied' = VehicleControl(0, 0, 0)
    /\ pc' = "decide"
    /\ UNCHANGED <<decision, instances, ranking, ticks, stats>>

\* lines 139-141: get_decision and the two fields of stats; an exception leaves
\* _run_scenario here, before its try statement
CallDecision ==
    /\ pc = "decide"
    /\ decision' = get_decision(obstacles)
    /\ IF decision'.outcome = "returned"
       THEN /\ stats' = [stats EXCEPT !.behavior = decision'.mode,
                                      !.brake_applied = decision'.brake]
            /\ pc' = "set_target"
       ELSE /\ pc' = "raised"
            /\ UNCHANGED stats
    /\ UNCHANGED <<obstacles, instances, ranking, ctrlVars, ticks, actors, applied>>

\* line 142: controller.set_lane_offset(mode)
SetTarget ==
    /\ pc = "set_target"
    /\ set_lane_offset(StrArg(decision.mode))
    /\ pc' = IF last'.raised = None THEN "loop" ELSE "raised"
    /\ UNCHANGED <<kgVars, ticks, stats, actors, applied>>

\* lines 146-147: the loop test holds and world.tick() runs; the collision
\* sensor's callback may record a collision with an obstacle, or with something
\* that is none (find_collided gives None)
Tick ==
    /\ pc = "loop"
    /\ ticks < MaxTicks
    /\ ticks' = ticks + 1
    /\ \E w \in ScenarioWorlds : world' = w
    /\ \E c \in {None} \cup {actors.spawned[i] : i \in 1..Len(actors.spawned)} :
          stats' = [stats EXCEPT !.collided_with = c]
    /\ pc' = "step"
    /\ UNCHANGED <<kgVars, target_offset, mode, last, actors, applied>>

\* lines 148-154: run_step, apply_control and the break on a collision
ControlStep ==
    /\ pc = "step"
    /\ RunStep(ConfigTargetSpeed, decision.brake)
    /\ applied' = last'.control
    /\ pc' = IF stats.collided_with # None THEN "finally" ELSE "loop"
    /\ UNCHANGED <<kgVars, ticks, stats, actors>>

\* line 146: the scenario timeout has passed
Timeout ==
    /\ pc = "loop"
    /\ pc' = "finally"
    /\ UNCHANGED <<kgVars, ctrlVars, ticks, stats, actors, applied>>

\* lines 155-160: the finally block
Finally ==
    /\ pc = "finally"
    /\ stats' = [stats EXCEPT !.saved = @ + 1]
    /\ actors' = [vehicle |-> "destroyed", sensor |-> "destroyed",
                  spawned |-> <<>>,
                  destroyed |-> actors.destroyed + Len(actors.spawned)]
    /\ pc' = "done"
    /\ UNCHANGED <<kgVars, ctrlVars, ticks, applied>>

NextScenario ==
    SpawnVehicle \/ Setup \/ CallDecision \/ SetTarget \/ Tick \/ ControlStep
        \/ Timeout \/ Finally

SpecScenario == InitScenario /\ [][NextScenario]_vars

\* the controller called freely, or driven by a scenario
SpecController ==
    (InitCtrl \/ InitScenario) /\ [][NextCtrl \/ NextScenario]_vars

----------------------------------------------------------------------------
(* Properties of get_decision, checked under SpecDecide *)

Decided == decision.outcome # "none"

ThreeSlots == Len(obstacles) = 3

\* the lane a maneuver drives into: left 1, center 2, right 3
LaneOf(m) ==
    CASE m = MODE_LEFT -> 1 [] m = MODE_STRAIGHT -> 2 [] m = MODE_RIGHT -> 3 [] OTHER -> 0

ResolvesToProceed(i) == behaviors_of(obstacles)[i] = "BehaviorProceed"

SomeProceed == \E i \in 1..Len(obstacles) : ResolvesToProceed(i)

\* the class a slot references: the asserted class of its instance
SlotClasses(i) == TypesOf(kg_instances_of(obstacles)[i])

SameExactClass ==
    \E c \in Classes : \A i \in 1..Len(obstacles) : SlotClasses(i) = {c}

SameInstance ==
    Cardinality({kg_instances_of(obstacles)[i] : i \in 1..Len(obstacles)}) = 1

\* base_kg.ttl gives no instance two different behaviors, so "the first row"
\* of get_behavior_for_instance is determined
RowsUnique ==
    \A i \in 1..Len(obstacles) :
        Cardinality(BehaviorRows(kg_instances_of(obstacles)[i])) <= 1

\* C1: for every 3-slot observation get_decision returns brake = false exactly
\* when some lane resolves to Proceed and the returned maneuver is that lane's,
\* and in every other case it returns brake = true.
C1_BrakeIffNoProceed ==
    (ThreeSlots /\ Decided) =>
        /\ decision.outcome = "returned"
        /\ (~ decision.brake) <=>
              (SomeProceed /\ ResolvesToProceed(LaneOf(decision.mode)))
        /\ (~ SomeProceed) => decision.brake = TRUE

\* C2: with a Proceed lane, get_decision takes the Proceed lane in the order
\* center, left, right, without brake; [person, car, bag] gives (right, false).
C2_ProceedPriority ==
    (ThreeSlots /\ Decided /\ SomeProceed) =>
        /\ decision.outcome = "returned"
        /\ decision.brake = FALSE
        /\ decision.mode =
              (IF ResolvesToProceed(2) THEN MODE_STRAIGHT
               ELSE IF ResolvesToProceed(1) THEN MODE_LEFT
               ELSE MODE_RIGHT)
        /\ (obstacles = <<"person", "car", "bag">> => decision.mode = MODE_RIGHT)

\* the scenario of C2 has been decided, and so has one with two Proceed lanes
C2_Witness ==
    /\ Decided
    /\ obstacles \in {<<"person", "car", "bag">>, <<"bag", "bag", "car">>}
    /\ decision.mode \in {MODE_RIGHT, MODE_STRAIGHT}
    /\ obstacles = <<"person", "car", "bag">> => decision.mode = MODE_RIGHT

\* C3: with no Proceed lane and all three slots of the same exact class,
\* get_decision returns (straight, true) and does not consult the ranking.
C3_SameClassStraightBrake ==
    (ThreeSlots /\ Decided /\ ~ SomeProceed /\ SameExactClass) =>
        /\ decision.outcome = "returned"
        /\ decision.mode = MODE_STRAIGHT
        /\ decision.brake = TRUE
        /\ decision.ranked = FALSE

\* three persons, one of them named by its instance identifier
C3_Witness ==
    /\ obstacles = <<"person", "DetectedPerson", "person">>
    /\ ~ SomeProceed /\ SameExactClass
    /\ decision = Returned(MODE_STRAIGHT, TRUE, FALSE)

\* C4: with no Proceed lane and slots that are not all the same, get_decision
\* completes with brake = true and the maneuver of the lane that holds the first
\* (least important) entry of the ranking, center tested before left before right.
C4_LeastImportantLane ==
    (ThreeSlots /\ Decided /\ ~ SomeProceed /\ ~ SameInstance) =>
        LET kg == kg_instances_of(obstacles)
            least == sort_instances_by_importance(kg)[1]
        IN  /\ decision.outcome = "returned"
            /\ decision.brake = TRUE
            /\ decision.mode =
                  (IF kg[2] = least THEN MODE_STRAIGHT
                   ELSE IF kg[1] = least THEN MODE_LEFT
                   ELSE MODE_RIGHT)

----------------------------------------------------------------------------
(* Properties of the controller, checked under SpecCtrl and SpecController *)

FullBrake == VehicleControl(0, 0, One)

RanStep == last.op = "run_step"

Emergency == last.arg = BoolArg(TRUE)

\* a tick of the scenario has run to its apply_control
TickApplied ==
    \/ pc = "step" /\ ticks >= 2
    \/ pc \in {"loop", "finally", "done"} /\ ticks >= 1

\* C7: run_step with emergency_brake returns exactly throttle 0, steer 0,
\* brake 1 whatever the pose, speed, target speed and target offset; and in a
\* scenario whose decision has brake = true every tick applies that command.
C7_EmergencyBrakeFullStop ==
    /\ (RanStep /\ Emergency) => last.control = FullBrake
    /\ (decision.outcome = "returned" /\ decision.brake /\ TickApplied)
          => applied = FullBrake

\* an emergency brake with the target one lane to the right, the vehicle moving
\* and turned away from the lane
C7_Witness ==
    /\ RanStep /\ Emergency
    /\ target_offset = lane_width
    /\ world.speed > 0 /\ world.yaw = 90 /\ world.heading = 0
    /\ last.control = FullBrake

C9_RunStepKeepsState ==
    [][ /\ last'.op = "run_step" =>
            /\ target_offset' = target_offset
            /\ mode' = mode
            /\ last'.arg = BoolArg(FALSE) =>
                  (last'.raw + world.yaw) \in TargetAngles(target_offset, world)
        /\ target_offset' # target_offset =>
            /\ last'.op \in {"set_lane_offset", "set_mode"}
            /\ last'.raised = None ]_vars

\* run_step has run, not braking, on a target that set_lane_offset moved away
\* from the one set_mode gave
C9_Witness ==
    /\ RanStep /\ ~ Emergency
    /\ mode = MODE_LEFT
    /\ target_offset = lane_width

Congruent360(a, b) == (a - b) % 360 = 0

\* C10 as claimed: the heading error lies in (-180, 180], is congruent to the
\* raw difference modulo 360, and -180 maps to 180.
C10_HalfOpenInterval ==
    (RanStep /\ ~ Emergency) =>
        /\ last.error > -180 /\ last.error <= 180
        /\ Congruent360(last.error, last.raw)
        /\ (last.raw = 270 => last.error = -90)
        /\ (last.raw = -200 => last.error = 160)
        /\ (last.raw = -180 => last.error = 180)

\* C10 amended: the heading error lies in [-180, 180], is congruent to the raw
\* difference modulo 360, and is -180 exactly for the raw differences -180,
\* -540, ..., which it leaves at -180.
C10_ClosedInterval ==
    (RanStep /\ ~ Emergency) =>
        /\ last.error >= -180 /\ last.error <= 180
        /\ Congruent360(last.error, last.raw)
        /\ (last.raw = 270 => last.error = -90)
        /\ (last.raw = -200 => last.error = 160)
        /\ (last.raw = -180 => last.error = -180)
        /\ (last.error = -180 <=> (last.raw < 0 /\ Congruent360(last.raw, 180)))

\* a raw difference of -180 has been normalized
C10_Witness ==
    /\ RanStep /\ ~ Emergency
    /\ last.raw = -180
    /\ last.error = -180

----------------------------------------------------------------------------
(* Properties of sort_instances_by_importance, checked under SpecRank *)

Ranked == ranking.called

Max(S) == CHOOSE x \in S : \A y \in S : y <= x

\* The ranking the importance graph asks for: the depth of a class is the
\* length of the longest ex:moreImportantThan path that ends in it.
RECURSIVE importanceDepth(_)
importanceDepth(c) ==
    LET above == {e[1] : e \in {x \in moreImportantThan : x[2] = c}}
    IN  IF above = {} THEN 0 ELSE 1 + Max({importanceDepth(a) : a \in above})

MaxDepth == Max({importanceDepth(c) : c \in Classes})

\* the score of an instance: the greatest depth among the ancestors of its class
DagScore(instance) ==
    IF ParentClasses(instance) = {} THEN MaxDepth + 1
    ELSE Max({importanceDepth(c) : c \in ParentClasses(instance)})

\* C5: the ranking is in descending order of the importance-graph score (least
\* important first), and a person is never ranked before a car or a box.
C5_RankedByImportanceDag ==
    Ranked =>
        \A i, j \in 1..Len(ranking.result) :
            i < j =>
                /\ DagScore(ranking.result[i]) >= DagScore(ranking.result[j])
                /\ ~ (ranking.result[i] = "DetectedPerson"
                        /\ ranking.result[j] \in {"DetectedCar", "DetectedBox"})

\* the permutations of 1..n
Perms(n) == {p \in [1..n -> 1..n] : \A a, b \in 1..n : p[a] = p[b] => a = b}

\* C6: the ranking is a permutation of the input in which entries of equal
\* score keep the relative order they had in the input.
C6_StablePermutation ==
    Ranked =>
        /\ Len(ranking.result) = Len(instances)
        /\ \E p \in Perms(Len(instances)) :
              /\ \A k \in 1..Len(instances) : ranking.result[k] = instances[p[k]]
              /\ \A k, l \in 1..Len(instances) :
                    (k < l /\ get_importance_score(ranking.result[k])
                                = get_importance_score(ranking.result[l]))
                        => p[k] < p[l]

\* two different instances of equal score behind which a lower one was sorted
C6_Witness ==
    /\ Ranked
    /\ instances = <<"DetectedPerson", "DetectedCar", "DetectedBag">>
    /\ get_importance_score("DetectedPerson") = get_importance_score("DetectedCar")
    /\ ranking.result = <<"DetectedBag", "DetectedPerson", "DetectedCar">>


----------------------------------------------------------------------------
(* Properties of run_step's ranges, checked under SpecController *)

\* a scenario whose decision asked for no emergency brake has applied the
\* command of its latest tick, and the simulator has not moved the vehicle since
DroveATick ==
    /\ pc \in {"loop", "finally", "done"}
    /\ ticks >= 1
    /\ decision.outcome = "returned" /\ ~ decision.brake

\* C11: every command run_step returns has throttle in [0, 1], steer in [-1, 1]
\* and brake in [0, 1]; steer is 1 when the heading error is at least 60 degrees
\* and -1 when it is at most -60 degrees; at zero speed with target speed 80
\* (the scenario's target speed) the command has throttle 1 and brake 0.
C11_CommandsClamped ==
    /\ RanStep =>
          /\ last.control.throttle \in 0..One
          /\ last.control.steer \in (0 - One)..One
          /\ last.control.brake \in 0..One
    /\ (RanStep /\ ~ Emergency /\ last.error >= 60) => last.control.steer = One
    /\ (RanStep /\ ~ Emergency /\ last.error <= 0 - 60) =>
          last.control.steer = 0 - One
    /\ (DroveATick /\ world.speed = 0) =>
          /\ applied.throttle = One
          /\ applied.brake = 0
    /\ (pc = "controller" /\ RanStep /\ ~ Emergency /\ world.speed = 0) =>
          /\ last.control.throttle = One
          /\ last.control.brake = 0
    /\ applied.throttle \in 0..One
    /\ applied.steer \in (0 - One)..One
    /\ applied.brake \in 0..One

\* a scenario tick at zero speed towards a clear lane, with the vehicle turned
\* so far from the target that the steering saturates
C11_Witness ==
    /\ DroveATick /\ world.speed = 0
    /\ RanStep /\ ~ Emergency
    /\ applied = last.control
    /\ applied.throttle = One /\ applied.brake = 0
    /\ last.error >= 60 /\ applied.steer = One


----------------------------------------------------------------------------
(* Specification of the target-setting calls with any number and any string *)

\* the largest number passed to set_lane_offset
MaxOffsetNumber == 2

\* numbers in and out of -1..1, the three modes and a string that is no mode
ManeuverArgs ==
    {IntArg(n) : n \in (0 - MaxOffsetNumber)..MaxOffsetNumber}
        \cup {StrArg(t) : t \in Modes \cup {"center"}}

InitManeuver ==
    /\ target_offset = 0
    /\ mode = MODE_STRAIGHT
    /\ world = [speed |-> 0, heading |-> 0, yaw |-> 0]
    /\ last = NoCall
    /\ obstacles = <<>>
    /\ decision = NoDecision
    /\ instances = <<>>
    /\ ranking = NotRanked
    /\ pc = "maneuver"
    /\ NoScenario

SetLaneOffsetAny ==
    /\ pc = "maneuver"
    /\ \E a \in ManeuverArgs : set_lane_offset(a)
    /\ UNCHANGED <<kgVars, runVars>>

SetModeAny ==
    /\ pc = "maneuver"
    /\ \E a \in ManeuverArgs : set_mode(a)
    /\ UNCHANGED <<kgVars, runVars>>

NextManeuver == SetLaneOffsetAny \/ SetModeAny

SpecManeuver == InitManeuver /\ [][NextManeuver]_vars

\* the arguments the documentation of set_lane_offset lists
Documented(a) ==
    \/ a.kind = "int" /\ a.int \in {-1, 0, 1}
    \/ a.kind = "str" /\ a.str \in Modes

----------------------------------------------------------------------------
(* Properties of unknown behaviors and unclassed instances, under SpecDecide *)

\* get_behavior_for_instance gave None for the slot
ResolvesToUnknown(i) == behaviors_of(obstacles)[i] = None

SomeUnknown == \E i \in 1..Len(obstacles) : ResolvesToUnknown(i)

\* C13: an instance with no declared behavior resolves to the value Unknown
\* (None), and a 3-slot observation with an Unknown lane and no Proceed lane
\* always yields a decision with brake = true whose lane, unless the three slots
\* are the same, is the lane of the first entry of the importance ranking.
C13_UnknownIsNotClear ==
    (ThreeSlots /\ Decided /\ SomeUnknown /\ ~ SomeProceed) =>
        /\ decision.outcome = "returned"
        /\ decision.brake
        /\ ~ (SameInstance \/ SameExactClass) =>
              LET kg == kg_instances_of(obstacles)
                  least == sort_instances_by_importance(kg)[1]
              IN  /\ decision.ranked
                  /\ decision.mode =
                        (IF kg[2] = least THEN MODE_STRAIGHT
                         ELSE IF kg[1] = least THEN MODE_LEFT
                         ELSE MODE_RIGHT)

\* the slot's instance has no rdf:type triple in the store
Unclassed(i) == SlotClasses(i) = {}

\* C14: get_behavior_for_instance fails with UnknownInstance for an instance
\* with no asserted class (DetectedCat, DetectedDog, DetectedBird,
\* DetectedBottle), and get_decision passes the error on to its caller: it
\* returns no decision for an observation that holds such an instance.
C14_UnclassedInstanceRaises ==
    (Decided /\ \E i \in 1..Len(obstacles) : Unclassed(i)) =>
        /\ decision.outcome = "raised"
        /\ decision.error = "UnknownInstance"

----------------------------------------------------------------------------
(* Properties of _run_scenario, checked under SpecScenario *)

\* get_decision has been called in this run
DecideCalled == pc \in {"set_target", "raised", "loop", "step", "finally", "done"}

\* the run is over: _run_scenario has returned or an exception has left it
RunEnded == pc \in {"raised", "done"}

\* set_lane_offset(mode) has been called with the decision's maneuver and has
\* set the target
TargetSetFromDecision ==
    /\ decision.outcome = "returned"
    /\ last.op \in {"set_lane_offset", "run_step"}
    /\ last.op = "set_lane_offset" => last.arg = StrArg(decision.mode) /\ last.raised = None
    /\ target_offset = OffsetNumber(StrArg(decision.mode)) * lane_width

\* C15: in every scenario run get_decision is called once, then the target is
\* set once from the maneuver it returned, and only then run_step runs, once per
\* tick and with the brake flag of the decision; the target and the flag stay
\* the same from tick to tick and each tick's command is applied before the
\* next tick.
C15_DecideTargetThenSteps ==
    /\ (DecideCalled /\ pc # "set_target") => TargetSetFromDecision
    /\ (pc \in {"loop", "finally", "done"} /\ ticks >= 1) =>
          /\ last.op = "run_step"
          /\ last.arg = BoolArg(decision.brake)
          /\ applied = last.control
    /\ (pc = "step" /\ ticks >= 2) =>
          /\ last.op = "run_step"
          /\ last.arg = BoolArg(decision.brake)
          /\ applied = last.control

\* C16: after any sequence of set_mode and set_lane_offset calls the mode agrees
\* with the target offset: left exactly with minus one lane width, straight
\* exactly with zero, right exactly with plus one lane width.
C16_ModeAgreesWithOffset ==
    /\ mode = MODE_LEFT <=> target_offset = 0 - lane_width
    /\ mode = MODE_STRAIGHT <=> target_offset = 0
    /\ mode = MODE_RIGHT <=> target_offset = lane_width

\* the ego vehicle of this run was spawned
VehicleSpawned == actors.vehicle # "none"

\* stats.save has run once and the sensor, the obstacles and the vehicle are
\* destroyed
CleanedUp ==
    /\ stats.saved = 1
    /\ actors.sensor = "destroyed"
    /\ actors.vehicle = "destroyed"
    /\ actors.spawned = <<>>
    /\ actors.destroyed = Len(obstacles)

\* C17: every scenario run whose vehicle was spawned ends with its statistics
\* saved exactly once and with the sensor, the obstacles and the vehicle
\* destroyed, whether it ends by the timeout, by a collision or by an error of
\* get_decision, set_lane_offset or the loop; nothing is saved twice.
C17_EndsCleanedUp ==
    /\ stats.saved <= 1
    /\ (VehicleSpawned /\ RunEnded) => CleanedUp

=============================================================================
